---- MODULE Spec2Model ----
(***************************************************************************)
(* Model of the UCLA enrollment monitor (ucla-monitor/monitor.py) and of   *)
(* the Slack client it posts through (slack_notifier/__init__.py).         *)
(*                                                                         *)
(* Text is modelled as TLA+ strings, character by character: the string    *)
(* methods and the four regular expressions of monitor.py are operators    *)
(* over the characters of their argument.                                  *)
(***************************************************************************)
EXTENDS Integers, Sequences, FiniteSets, TLC

(***************************************************************************)
(* Python string primitives                                                *)
(***************************************************************************)

\* s[i-1] in Python: the i-th character of s, as a one-character string
Char(s, i) == SubSeq(s, i, i)

\* the characters str.strip() removes and the pattern \s matches
IsSpace(c) == c \in {" ", "\n", "\t", "\r"}

Digits == "0123456789"

DigitVal == [c \in {Char(Digits, d) : d \in 1..10} |-> (CHOOSE d \in 1..10 : Char(Digits, d) = c) - 1]

\* the characters the pattern \d matches
IsDigit(c) == c \in DOMAIN DigitVal

UpperCase == "ABCDEFGHIJKLMNOPQRSTUVWXYZ"

LowerCase == "abcdefghijklmnopqrstuvwxyz"

LowerOf ==
    [c \in {Char(UpperCase, i) : i \in 1..26} |->
        Char(LowerCase, CHOOSE i \in 1..26 : Char(UpperCase, i) = c)]

LowerChar(c) == IF c \in DOMAIN LowerOf THEN LowerOf[c] ELSE c

\* str.lower()
RECURSIVE lower(_)
lower(s) ==
    IF Len(s) = 0 THEN ""
    ELSE IF Len(s) = 1 THEN LowerChar(s)
    ELSE LET h == Len(s) \div 2
         IN  lower(SubSeq(s, 1, h)) \o lower(SubSeq(s, h + 1, Len(s)))

SetMin(S) == CHOOSE x \in S : \A y \in S : x <= y

SetMax(S) == CHOOSE x \in S : \A y \in S : y <= x

\* str.strip()
strip(s) ==
    LET keep == {i \in 1..Len(s) : ~IsSpace(Char(s, i))}
    IN  IF keep = {} THEN "" ELSE SubSeq(s, SetMin(keep), SetMax(keep))

\* str.startswith(p)
startswith(s, p) == Len(p) <= Len(s) /\ SubSeq(s, 1, Len(p)) = p

\* the Python test `sub in s`
contains(s, sub) ==
    \E i \in 0..(Len(s) - Len(sub)) : SubSeq(s, i + 1, i + Len(sub)) = sub

\* str.split("\n"): the lines of s, a sequence of strings of length >= 1
split_lines(s) ==
    LET nl  == {i \in 1..Len(s) : Char(s, i) = "\n"}
        brk == [k \in 1..Cardinality(nl) |->
                   CHOOSE i \in nl : Cardinality({j \in nl : j < i}) = k - 1]
    IN  [k \in 1..(Cardinality(nl) + 1) |->
            SubSeq(s,
                   IF k = 1 THEN 1 ELSE brk[k - 1] + 1,
                   IF k = Cardinality(nl) + 1 THEN Len(s) ELSE brk[k] - 1)]

\* int(digits)
RECURSIVE int(_)
int(s) ==
    IF Len(s) = 0 THEN 0
    ELSE 10 * int(SubSeq(s, 1, Len(s) - 1)) + DigitVal[Char(s, Len(s))]

\* str(n) of a non-negative integer, as an f-string formats it
RECURSIVE str(_)
str(n) ==
    IF n < 10 THEN Char(Digits, n + 1)
    ELSE str(n \div 10) \o Char(Digits, (n % 10) + 1)

\* what a greedy \s* consumes from position i: the index of the last character of
\* the longest run of whitespace starting at i (i - 1 when that run is empty)
SpaceRunEnd(s, i) ==
    LET stop == {j \in i..Len(s) : ~IsSpace(Char(s, j))}
    IN  IF stop = {} THEN Len(s) ELSE SetMin(stop) - 1

\* what a greedy \d* consumes from position i
DigitRunEnd(s, i) ==
    LET stop == {j \in i..Len(s) : ~IsDigit(Char(s, j))}
    IN  IF stop = {} THEN Len(s) ELSE SetMin(stop) - 1

\* whether the literal text lit stands in s at position i
LitAt(s, i, lit) == i >= 1 /\ i + Len(lit) - 1 <= Len(s) /\ SubSeq(s, i, i + Len(lit) - 1) = lit

\* Python's None, where the code returns it in place of a seat count
None == -1

(***************************************************************************)
(* monitor.py: _get_class_blocks                                           *)
(***************************************************************************)

\* whether  Class \d+:\s*  (re.IGNORECASE) matches s at position p
HeaderAt(s, p) ==
    /\ p + 5 <= Len(s)
    /\ lower(SubSeq(s, p, p + 5)) = "class "
    /\ LET d == DigitRunEnd(s, p + 6)
       IN  d >= p + 6 /\ LitAt(s, d + 1, ":")

\* the last character of that match: the digits, the colon, the greedy \s*
HeaderEnd(s, p) == SpaceRunEnd(s, DigitRunEnd(s, p + 6) + 2)

\* re.split(r"(Class \d+:\s*)", page_text, flags=re.IGNORECASE): the text before the
\* first header, then each header followed by the text up to the next one. A match
\* holds no second "class ", so the leftmost non-overlapping matches re.split takes
\* are all the positions where the pattern matches.
re_split(page_text) ==
    LET at  == {p \in 1..Len(page_text) : HeaderAt(page_text, p)}
        n   == Cardinality(at)
        pos == [k \in 1..n |-> CHOOSE p \in at : Cardinality({q \in at : q < p}) = k - 1]
    IN  [j \in 1..(2 * n + 1) |->
            IF j = 1
            THEN SubSeq(page_text, 1, IF n = 0 THEN Len(page_text) ELSE pos[1] - 1)
            ELSE LET k == j \div 2
                 IN  IF j % 2 = 0
                     THEN SubSeq(page_text, pos[k], HeaderEnd(page_text, pos[k]))
                     ELSE SubSeq(page_text, HeaderEnd(page_text, pos[k]) + 1,
                                 IF k = n THEN Len(page_text) ELSE pos[k + 1] - 1)]

\* the loop  for i in range(1, len(parts), 2)  (parts is 1-based here: i = 2, 4, ...)
get_class_blocks(page_text) ==
    LET parts == re_split(page_text)
    IN  [k \in 1..(Len(parts) \div 2) |->
            LET header  == parts[2 * k]
                content == IF 2 * k + 1 <= Len(parts) THEN parts[2 * k + 1] ELSE ""
            IN  strip(header \o content)]

(***************************************************************************)
(* monitor.py: _block_matches_class_code                                   *)
(***************************************************************************)

\* the match without the dash: the code as a bare prefix of line 2
re_match_prefix_only(class_code, line2) == startswith(line2, class_code)

\* re.match(rf"^\s*{escaped}\s*-\s*", line2): re.escape makes class_code a literal;
\* the leading \s* may give characters back, the one before "-" cannot need to
re_match_code(class_code, line2) ==
    \E a \in 0..SpaceRunEnd(line2, 1) :
        /\ LitAt(line2, a + 1, class_code)
        /\ LitAt(line2, SpaceRunEnd(line2, a + 1 + Len(class_code)) + 1, "-")

block_matches_class_code(block, class_code) ==
    LET lines == split_lines(strip(block))
    IN  IF Len(lines) < 2 THEN FALSE
        ELSE re_match_code(class_code, strip(lines[2]))

(***************************************************************************)
(* monitor.py: _get_lec_lab_rows                                           *)
(***************************************************************************)

\* stripped.lower().startswith("lec ") or stripped.lower().startswith("lab ")
starts_lec_lab(stripped) ==
    startswith(lower(stripped), "lec ") \/ startswith(lower(stripped), "lab ")

\* the merge condition without the test for a Dis line
is_status_line_no_dis(next_line) ==
    /\ next_line # ""
    /\ ~(\/ startswith(lower(next_line), "lec ")
         \/ startswith(lower(next_line), "lab "))

\* the condition under which the line after a Lec/Lab line is merged into its row
is_status_line(next_line) ==
    /\ next_line # ""
    /\ ~(\/ startswith(lower(next_line), "lec ")
         \/ startswith(lower(next_line), "lab ")
         \/ startswith(lower(next_line), "dis "))

\* the while loop over content_lines, from index i (1-based) with the rows so far
RECURSIVE lec_lab_loop(_, _, _)
lec_lab_loop(content_lines, i, rows) ==
    IF i > Len(content_lines) THEN rows
    ELSE LET stripped == strip(content_lines[i])
         IN  IF stripped = "" THEN lec_lab_loop(content_lines, i + 1, rows)
             ELSE IF starts_lec_lab(stripped)
             THEN IF i + 1 <= Len(content_lines) /\ is_status_line(strip(content_lines[i + 1]))
                  THEN lec_lab_loop(content_lines, i + 2,
                           Append(rows, stripped \o " " \o strip(content_lines[i + 1])))
                  ELSE lec_lab_loop(content_lines, i + 1, Append(rows, stripped))
             ELSE lec_lab_loop(content_lines, i + 1, rows)

get_lec_lab_rows(block) ==
    LET lines == split_lines(strip(block))
    IN  lec_lab_loop(SubSeq(lines, 3, Len(lines)), 1, <<>>)

(***************************************************************************)
(* monitor.py: _parse_lec_lab_status                                       *)
(***************************************************************************)

\* where  open:\s*(\d+)\s+of\s+\d+\s*left  matches t at position p, the end of its group 1
\* (0 when the pattern does not match at p)
OpenGroupEnd(t, p) ==
    IF ~LitAt(t, p, "open:") THEN 0
    ELSE LET a  == SpaceRunEnd(t, p + 5)
             d  == DigitRunEnd(t, a + 1)
             b  == SpaceRunEnd(t, d + 1)
             c  == SpaceRunEnd(t, b + 3)
             d2 == DigitRunEnd(t, c + 1)
             e  == SpaceRunEnd(t, d2 + 1)
         IN  IF /\ d >= a + 1
                /\ b >= d + 1
                /\ LitAt(t, b + 1, "of")
                /\ c >= b + 3
                /\ d2 >= c + 1
                /\ LitAt(t, e + 1, "left")
             THEN d ELSE 0

\* the positions of t where that pattern matches
OpenMatches(t) == {p \in 1..Len(t) : OpenGroupEnd(t, p) > 0}

\* int(m.group(1)) of the match at position p
OpenGroup(t, p) == int(SubSeq(t, SpaceRunEnd(t, p + 5) + 1, OpenGroupEnd(t, p)))

\* re.search(r"open:\s*(\d+)\s+of\s+\d+\s*left", t): int(m.group(1)) of the leftmost
\* match, or None
re_search_open(t) ==
    IF OpenMatches(t) = {} THEN None ELSE OpenGroup(t, SetMin(OpenMatches(t)))

\* a character of the class [:\s]
IsColonOrSpace(c) == c = ":" \/ IsSpace(c)

\* what a greedy [:\s]* consumes from position i
ColonSpaceRunEnd(s, i) ==
    LET stop == {j \in i..Len(s) : ~IsColonOrSpace(Char(s, j))}
    IN  IF stop = {} THEN Len(s) ELSE SetMin(stop) - 1

\* where  waitlist[:\s]*(\d+)  matches t at position p, the end of its group 1 (else 0)
WaitlistGroupEnd(t, p) ==
    IF ~LitAt(t, p, "waitlist") THEN 0
    ELSE LET a == ColonSpaceRunEnd(t, p + 8)
             d == DigitRunEnd(t, a + 1)
         IN  IF d >= a + 1 THEN d ELSE 0

\* the positions of t where that pattern matches
WaitlistMatches(t) == {p \in 1..Len(t) : WaitlistGroupEnd(t, p) > 0}

\* int(m.group(1)) of the match at position p
WaitlistGroup(t, p) == int(SubSeq(t, ColonSpaceRunEnd(t, p + 8) + 1, WaitlistGroupEnd(t, p)))

\* re.search(r"waitlist[:\s]*(\d+)", t): int(m.group(1)) of the leftmost match, or None
re_search_waitlist(t) ==
    IF WaitlistMatches(t) = {} THEN None ELSE WaitlistGroup(t, SetMin(WaitlistMatches(t)))

\* max(list) of a non-empty list of integers
max(seats) == SetMax({seats[k] : k \in 1..Len(seats)})

\* the for loop over rows from index i, with open_seats and waitlist_seats so far,
\* and the returns after it
RECURSIVE parse_loop(_, _, _, _)
parse_loop(rows, i, open_seats, waitlist_seats) ==
    IF i > Len(rows)
    THEN IF open_seats # <<>> THEN <<"open", max(open_seats)>>
         ELSE IF waitlist_seats # <<>> THEN <<"waitlist", max(waitlist_seats)>>
         ELSE <<"closed", None>>
    ELSE LET t == lower(rows[i])
         IN  IF contains(t, "closed") \/ contains(t, "class full")
             THEN <<"closed", None>>
             ELSE parse_loop(rows, i + 1,
                      IF contains(t, "open:") /\ re_search_open(t) # None
                      THEN Append(open_seats, re_search_open(t)) ELSE open_seats,
                      IF contains(t, "waitlist") /\ re_search_waitlist(t) # None
                      THEN Append(waitlist_seats, re_search_waitlist(t)) ELSE waitlist_seats)

parse_lec_lab_status(rows) == parse_loop(rows, 1, <<>>, <<>>)

(***************************************************************************)
(* monitor.py: get_course_availability                                     *)
(***************************************************************************)

\* (display_name, class_code)
COURSES == << <<"AERO", "A">>, <<"SCAND60", "60">>, <<"M61", "61">> >>

\* the slice [:600] of the evidence
EvidenceLen == 600

\* how a call ends: it returns a value, or an exception leaves it
Return(v) == [kind |-> "return", value |-> v]

Raise(e) == [kind |-> "raise", value |-> e]

\* [b for b in blocks if _block_matches_class_code(b, class_code)]
matching(blocks, class_code) ==
    SelectSeq(blocks, LAMBDA b : block_matches_class_code(b, class_code))

\* the rows of the first matching block alone, without pooling
first_block_rows(matching_blocks) ==
    IF matching_blocks = <<>> THEN <<>> ELSE get_lec_lab_rows(Head(matching_blocks))

\* for block in matching_blocks: all_lec_lab_rows.extend(_get_lec_lab_rows(block))
RECURSIVE pooled_rows(_)
pooled_rows(matching_blocks) ==
    IF matching_blocks = <<>> THEN <<>>
    ELSE get_lec_lab_rows(Head(matching_blocks)) \o pooled_rows(Tail(matching_blocks))

\* the evidence without the slice
evidence_uncut(matching_blocks) == matching_blocks[1]

\* matching_blocks[0][:600]
evidence(matching_blocks) ==
    SubSeq(matching_blocks[1], 1,
           IF Len(matching_blocks[1]) < EvidenceLen THEN Len(matching_blocks[1])
           ELSE EvidenceLen)

\* f"[{label} - {what}]"
fmt(label, what) == "[" \o label \o " - " \o what \o "]"

\* the returns that follow  status, count = _parse_lec_lab_status(all_lec_lab_rows)
format_status(label, status, count, matching_blocks) ==
    IF status = "closed"
    THEN <<fmt(label, "CLOSED"), evidence(matching_blocks)>>
    ELSE IF status = "open" /\ count # None
    THEN <<fmt(label, str(count) \o " SEATS OPEN"), evidence(matching_blocks)>>
    ELSE IF status = "waitlist" /\ count # None
    THEN <<fmt(label, str(count) \o " WAITLIST SEATS"), evidence(matching_blocks)>>
    ELSE <<fmt(label, "CLOSED"), evidence(matching_blocks)>>

\* the body of the try block, once page_text is read
lookup(page_text, label, class_code) ==
    IF ~contains(page_text, class_code)
    THEN <<fmt(label, "NOT FOUND"), "">>
    ELSE LET blocks          == get_class_blocks(page_text)
             matching_blocks == matching(blocks, class_code)
         IN  IF matching_blocks = <<>>
             THEN <<fmt(label, "NOT FOUND"), "">>
             ELSE LET all_lec_lab_rows == pooled_rows(matching_blocks)
                  IN  IF all_lec_lab_rows = <<>>
                      THEN <<fmt(label, "NOT FOUND"), evidence(matching_blocks)>>
                      ELSE LET sc == parse_lec_lab_status(all_lec_lab_rows)
                           IN  format_status(label, sc[1], sc[2], matching_blocks)

\* a handler that lets the exception through
on_exception_reraise(label, e) == Raise(e)

\* except Exception as e: return f"[{label} - ERROR]", str(e)
on_exception(label, e) == Return(<<fmt(label, "ERROR"), e>>)

\* driver.find_element(By.TAG_NAME, "body").text either raises (driver.raises, with
\* the message driver.text) or gives the page text driver.text
get_course_availability(driver, label, class_code) ==
    IF driver.raises
    THEN on_exception(label, driver.text)
    ELSE Return(lookup(driver.text, label, class_code))

(***************************************************************************)
(* slack_notifier/__init__.py: SlackBotClient                              *)
(***************************************************************************)

\* An Optional[str] that is None is modelled by the empty string: the client only
\* ever tests these values for truth, and both are false.
NoStr == ""

\* SlackBotClient.__init__
SlackBotClient(bot_token, dm_user_id, channel) ==
    [bot_token |-> bot_token, dm_user_id |-> dm_user_id, channel |-> channel,
     dm_channel_id |-> NoStr]

\* how a request to the Slack API ends: the reply says ok, says not ok, or
\* requests.post / resp.json() raises
Replies == {"ok", "not_ok", "raises"}

\* the channel id conversations.open answers with
DmChannelId == "D024BE91L"

\* _get_dm_channel: the channel id (or None) and the client with its cache
get_dm_channel(self, open_reply) ==
    IF self.dm_user_id = NoStr THEN [value |-> NoStr, self |-> self]
    ELSE IF self.dm_channel_id # NoStr THEN [value |-> self.dm_channel_id, self |-> self]
    ELSE IF open_reply = "ok"
    THEN [value |-> DmChannelId, self |-> [self EXCEPT !.dm_channel_id = DmChannelId]]
    ELSE [value |-> NoStr, self |-> self]

\* _get_channel
get_channel(self, open_reply) ==
    IF self.channel # NoStr THEN [value |-> self.channel, self |-> self]
    ELSE get_dm_channel(self, open_reply)

\* a handler that lets the exception through
post_reraise(e) == Raise(e)

\* except Exception as e: logger.error(...); return False
post_on_exception(e) == Return(FALSE)

\* SlackBotClient.post: how the call ends, the client after it, and the message the
\* API accepted, if it did
post(self, text, ping_user_id, open_reply, post_reply) ==
    LET ping == IF ping_user_id # NoStr THEN ping_user_id
                ELSE IF self.channel # NoStr THEN self.dm_user_id ELSE NoStr
        body == IF ping # NoStr THEN "<@" \o ping \o "> " \o text ELSE text
        ch   == get_channel(self, open_reply)
    IN  IF ch.value = NoStr
        THEN [outcome |-> Return(FALSE), self |-> ch.self, sent |-> <<>>]
        ELSE IF post_reply = "raises"
        THEN [outcome |-> post_on_exception("ConnectionError"), self |-> ch.self, sent |-> <<>>]
        ELSE IF post_reply = "not_ok"
        THEN [outcome |-> Return(FALSE), self |-> ch.self, sent |-> <<>>]
        ELSE [outcome |-> Return(TRUE), self |-> ch.self,
              sent |-> <<[channel |-> ch.value, text |-> body]>>]

\* SlackBotClient.from_env() as main calls it, without arguments
from_env(env) == SlackBotClient(env.SLACK_BOT_TOKEN, env.SLACK_USER_ID, env.SLACK_CHANNEL)

(***************************************************************************)
(* monitor.py: main                                                        *)
(***************************************************************************)

\* if "CLOSED" not in status and "NOT FOUND" not in status
should_post(status) == ~contains(status, "CLOSED") /\ ~contains(status, "NOT FOUND")

\* a failed wait that falls through to the courses
wait_falls_through(ok) == "course"

\* where the loop goes after WebDriverWait: on to the courses, or, when the wait
\* raised, `continue` to the next sleep
wait_target(ok) == IF ok THEN "course" ELSE "sleep"

(***************************************************************************)
(* State                                                                   *)
(***************************************************************************)

VARIABLES
    pc,       \* where the program stands
    arg,      \* the arguments of the function under check
    ret,      \* how its call ended
    dom,      \* the text of the page the browser shows now
    cycle,    \* the number of refreshes done
    ci,       \* the index in COURSES of the course being processed
    waited,   \* how this cycle's WebDriverWait ended
    log,      \* this cycle's engine calls and posts, one entry per course processed
    history,  \* the messages posted in earlier cycles
    slack,    \* the fields of the SlackBotClient
    changes,  \* the number of times the page changed by itself
    fault     \* the exception that ended main, if one did

loopvars == <<dom, cycle, ci, waited, log, history, slack, changes, fault>>

vars == <<pc, arg, ret, dom, cycle, ci, waited, log, history, slack, changes, fault>>

\* the state of the monitor while a single function is under check
LoopIdle ==
    /\ dom = "" /\ cycle = 0 /\ ci = 0 /\ waited = "" /\ log = <<>>
    /\ history = {} /\ slack = <<>> /\ changes = 0 /\ fault = ""

SeqsUpTo(S, n) == UNION {[1..k -> S] : k \in 0..n}

RECURSIVE join(_, _)
join(sep, parts) ==
    IF parts = <<>> THEN ""
    ELSE IF Len(parts) = 1 THEN parts[1]
    ELSE parts[1] \o sep \o join(sep, Tail(parts))

(***************************************************************************)
(* SpecClassify: _parse_lec_lab_status on every list of up to MaxRows rows *)
(***************************************************************************)

MaxRows == 3

RowTexts ==
    { "Lec 1 Open: 3 of 5 left",
      "Lec 2 Open: 10 of 20 left",
      "Lab 1 open: 1 of 9 left",
      "Lec 3 Closed",
      "Lab 2 Class Full",
      "Lec 4 Waitlist: 2",
      "Lab 3 waitlist 12",
      "Lec 5",
      "Lec 6 Open: 4 of left Waitlist Full",
      "Lec 7 Open: 3 of 5 left Open: 10 of 20 left" }

InitClassify ==
    /\ pc = "call" /\ arg \in SeqsUpTo(RowTexts, MaxRows) /\ ret = <<>>
    /\ LoopIdle

CallClassify ==
    /\ pc = "call"
    /\ ret' = Return(parse_lec_lab_status(arg))
    /\ pc' = "return"
    /\ UNCHANGED <<arg, loopvars>>

SpecClassify == InitClassify /\ [][CallClassify]_vars

\* every count the open pattern captures in some row, at any position of the row
OpenCounts(rows) ==
    UNION {{OpenGroup(lower(rows[k]), p) : p \in OpenMatches(lower(rows[k]))} : k \in 1..Len(rows)}

\* every count the waitlist pattern captures in some row
WaitlistCounts(rows) ==
    UNION {{WaitlistGroup(lower(rows[k]), p) : p \in WaitlistMatches(lower(rows[k]))} : k \in 1..Len(rows)}

AnyClosed(rows) ==
    \E k \in 1..Len(rows) :
        contains(lower(rows[k]), "closed") \/ contains(lower(rows[k]), "class full")

\* the verdict of the four-step precedence
FourStep(rows) ==
    IF AnyClosed(rows) THEN <<"closed", None>>
    ELSE IF OpenCounts(rows) # {} THEN <<"open", SetMax(OpenCounts(rows))>>
    ELSE IF WaitlistCounts(rows) # {} THEN <<"waitlist", SetMax(WaitlistCounts(rows))>>
    ELSE <<"closed", None>>

\* C1: for every list of rows, _parse_lec_lab_status returns the verdict of the
\* four-step precedence: closed if any row says closed or class full, else open with
\* the maximum of all open counts captured over all rows, else waitlist with the
\* maximum of all waitlist counts, else closed.
C1_FourStepVerdict == pc = "return" => ret.value = FourStep(arg)

(***************************************************************************)
(* SpecMatch: _block_matches_class_code on blocks whose lines vary          *)
(***************************************************************************)

\* the most blanks between the code and the dash of line 2
MaxPad == 2

RECURSIVE Blanks(_)
Blanks(k) == IF k = 0 THEN "" ELSE " " \o Blanks(k - 1)

FirstLines == {"Class 1:", "class 22:", "Class 3: A - decoy"}

SecondLines ==
    {lead \o tok \o Blanks(k) \o rest :
        lead \in {"", " "}, tok \in {"A", "AB", "60", "6"}, k \in 0..MaxPad,
        rest \in {"- Intro", "-", "Intro", ""}}

OtherLines == {"", "\nLec 1\n60 - decoy\nA - decoy", "\n6 - decoy"}

MatchBlocks ==
    FirstLines \cup {l1 \o "\n" \o l2 \o more : l1 \in FirstLines, l2 \in SecondLines, more \in OtherLines}

MatchCodes == {"A", "60", "6", "61"}

InitMatch ==
    /\ pc = "call" /\ arg \in MatchBlocks \X MatchCodes /\ ret = <<>>
    /\ LoopIdle

CallMatch ==
    /\ pc = "call"
    /\ ret' = Return(block_matches_class_code(arg[1], arg[2]))
    /\ pc' = "return"
    /\ UNCHANGED <<arg, loopvars>>

SpecMatch == InitMatch /\ [][CallMatch]_vars

\* line begins with the literal code, then optional whitespace, then "-"
BeginsWithCode(line, code) ==
    /\ startswith(line, code)
    /\ \E j \in (Len(code) + 1)..Len(line) :
          /\ Char(line, j) = "-"
          /\ \A m \in (Len(code) + 1)..(j - 1) : IsSpace(Char(line, m))

\* C6: the result depends only on line 2 of the block: false with fewer than 2 lines,
\* else true exactly when the trimmed second line begins with the code as a literal,
\* then optional whitespace, then "-"; no other line changes it, and a code that is a
\* proper prefix of the line's code ("6" against "60 - ...") does not match.
C6_MatchesLine2Only ==
    pc = "return" =>
        LET lines == split_lines(arg[1])
        IN  ret.value = (Len(lines) >= 2 /\ BeginsWithCode(strip(lines[2]), arg[2]))

C6_Witness ==
    /\ pc = "return"
    /\ arg = <<"Class 3: A - decoy\n60  - Intro\n6 - decoy", "60">>
    /\ ret.value = TRUE

(***************************************************************************)
(* SpecRows: _get_lec_lab_rows on blocks of up to MaxContentLines lines    *)
(***************************************************************************)

\* the most lines after line 2 of a block
MaxContentLines == 3

ContentLines ==
    { "Lec 1",
      "Lab 2 Closed",
      "Open: 3 of 5 left",
      "Dis 1A",
      "DIS 1B Open: 10 of 30 left",
      "  dis 1C",
      "" }

RowBlocks ==
    {join("\n", <<"Class 1:", "A - Intro">> \o c) : c \in SeqsUpTo(ContentLines, MaxContentLines)}

InitRows ==
    /\ pc = "call" /\ arg \in RowBlocks /\ ret = <<>>
    /\ LoopIdle

CallRows ==
    /\ pc = "call"
    /\ ret' = Return(get_lec_lab_rows(arg))
    /\ pc' = "return"
    /\ UNCHANGED <<arg, loopvars>>

SpecRows == InitRows /\ [][CallRows]_vars

\* a line that, trimmed as the code trims it, starts with "dis "
IsDis(line) == startswith(lower(strip(line)), "dis ")

\* the status line of a Dis row: the line after a Dis line, when it is not blank and
\* starts no Lec, Lab or Dis row itself
IsDisStatus(lines, k) ==
    /\ k > 1 /\ IsDis(lines[k - 1])
    /\ strip(lines[k]) # "" /\ ~starts_lec_lab(strip(lines[k])) /\ ~IsDis(lines[k])

\* the block with other text on its Dis rows: every Dis line and every status line of
\* a Dis row replaced
Redact(block) ==
    LET lines == split_lines(block)
    IN  join("\n", [k \in 1..Len(lines) |->
            IF k > 2 /\ IsDis(lines[k]) THEN "Dis 9Z Closed"
            ELSE IF k > 2 /\ IsDisStatus(lines, k) THEN "Waitlist: 77"
            ELSE lines[k]])

\* C7: no row starts with "dis " or includes the text of a Dis line, also when the Dis
\* line follows a Lec/Lab line without a status line; the rows, and so the label of the
\* course, are the same whatever text the Dis rows and their status lines carry.
C7_DisNeverContributes ==
    pc = "return" =>
        LET lines == split_lines(arg)
        IN  /\ \A r \in 1..Len(ret.value) :
                 /\ ~startswith(lower(ret.value[r]), "dis ")
                 /\ \A k \in 3..Len(lines) :
                        IsDis(lines[k]) => ~contains(ret.value[r], strip(lines[k]))
            /\ ret.value = get_lec_lab_rows(Redact(arg))
            /\ lookup(arg, "AERO", "A")[1] = lookup(Redact(arg), "AERO", "A")[1]

C7_Witness ==
    /\ pc = "return"
    /\ arg = "Class 1:\nA - Intro\nLec 1\nDis 1A\nOpen: 3 of 5 left"
    /\ ret.value = <<"Lec 1">>

(***************************************************************************)
(* SpecLookup: get_course_availability on pages of up to MaxBlocks blocks   *)
(***************************************************************************)

\* the most class blocks on a page
MaxBlocks == 2

\* the length of the description that makes a block longer than the evidence
LongDescLen == 640

RECURSIVE Filler(_)
Filler(n) ==
    IF n = 0 THEN ""
    ELSE IF n = 1 THEN "x"
    ELSE Filler(n \div 2) \o Filler(n - n \div 2)

LookupBlocks ==
    { "Class 1:\nA - Intro to Aerospace\nLec 1 Open: 84 of 300 left\nDis 1A Open: 10 of 30 left",
      "Class 2:\nA - Aerospace Lab\nLab 1\nClosed",
      "Class 3:\n60 - Scandinavian\nLec 1\nWaitlist: 5",
      "Class 4:\n60 - Scandinavian II\nLec 2\nOpen: 3 of 40 left",
      "Class 5:\n61 - Math\nDis 1A\nOpen: 2 of 30 left",
      "Class 6:\nAB - Other\nLec 1 Open: 1 of 2 left",
      "Class 7:\nA - " \o Filler(LongDescLen) \o "\nLec 1\nOpen: 7 of 9 left" }

\* a page lists each class once
LookupPages ==
    {"My class planner\n" \o join("\n", bs) :
        bs \in {x \in SeqsUpTo(LookupBlocks, MaxBlocks) : \A i, j \in 1..Len(x) : x[i] = x[j] => i = j}}

\* what str(e) gives when reading the body text raises
DriverErrors == {"Message: no such element", "Message: stale element reference"}

Drivers ==
    {[raises |-> FALSE, text |-> p] : p \in LookupPages}
        \cup {[raises |-> TRUE, text |-> e] : e \in DriverErrors}

InitLookup ==
    /\ pc = "call" /\ arg \in [driver : Drivers, course : 1..Len(COURSES)] /\ ret = <<>>
    /\ LoopIdle

CallLookup ==
    /\ pc = "call"
    /\ ret' = get_course_availability(arg.driver, COURSES[arg.course][1], COURSES[arg.course][2])
    /\ pc' = "return"
    /\ UNCHANGED <<arg, loopvars>>

SpecLookup == InitLookup /\ [][CallLookup]_vars

\* the indices, in document order, of the blocks that match the code
MatchingAt(blocks, code) ==
    {k \in 1..Len(blocks) : block_matches_class_code(blocks[k], code)}

RowsOf(block) ==
    LET rows == get_lec_lab_rows(block) IN {rows[r] : r \in 1..Len(rows)}

\* the lecture/lab rows of all the blocks that match the code
PooledRowSet(text, code) ==
    LET blocks == get_class_blocks(text)
    IN  UNION {RowsOf(blocks[k]) : k \in MatchingAt(blocks, code)}

Prefix(s, n) == SubSeq(s, 1, IF Len(s) < n THEN Len(s) ELSE n)

\* C3: when no exception is hit: with the code absent from the page or no block
\* matching, the result is the NOT FOUND label with empty evidence; with a matching
\* block, the evidence is the first 600 characters of the first matching block, not
\* empty, and the label is NOT FOUND exactly when no row is pooled.
C3_NotFoundAndEvidence ==
    (pc = "return" /\ ~arg.driver.raises) =>
        LET text   == arg.driver.text
            label  == COURSES[arg.course][1]
            code   == COURSES[arg.course][2]
            blocks == get_class_blocks(text)
            at     == MatchingAt(blocks, code)
        IN  IF ~contains(text, code) \/ at = {}
            THEN ret.value = <<fmt(label, "NOT FOUND"), "">>
            ELSE /\ ret.value[2] = Prefix(blocks[SetMin(at)], 600)
                 /\ ret.value[2] # ""
                 /\ (ret.value[1] = fmt(label, "NOT FOUND")) <=> (PooledRowSet(text, code) = {})

\* a block longer than 600 characters matches first: the evidence is cut to 600
C3_Witness ==
    /\ pc = "return" /\ ~arg.driver.raises /\ arg.course = 1
    /\ LET blocks == get_class_blocks(arg.driver.text)
       IN  /\ MatchingAt(blocks, "A") # {}
           /\ Len(blocks[SetMin(MatchingAt(blocks, "A"))]) > 600
    /\ Len(ret.value[2]) = 600
    /\ ret.value[1] = "[AERO - 7 SEATS OPEN]"

\* a pooled row that carries an "open: N of M left" count
HasOpenCount(row) == OpenMatches(lower(row)) # {}

SaysClosed(row) == contains(lower(row), "closed") \/ contains(lower(row), "class full")

IsSeatsOpenLabel(s, label, rows) ==
    \E k \in 1..Len(rows) : \E p \in OpenMatches(lower(rows[k])) :
        s = fmt(label, str(OpenGroup(lower(rows[k]), p)) \o " SEATS OPEN")

\* C4 as claimed: whenever some pooled row carries an open count, the label is an
\* "n SEATS OPEN" label, whatever the other pooled rows contain.
C4_AnyOpenRowIsAvailable ==
    (pc = "return" /\ ~arg.driver.raises) =>
        LET rows == PooledRowSet(arg.driver.text, COURSES[arg.course][2])
        IN  (\E r \in rows : HasOpenCount(r)) =>
                \E r \in rows : IsSeatsOpenLabel(ret.value[1], COURSES[arg.course][1], <<r>>)

\* C4 amended: whenever some pooled row carries an open count and no pooled row
\* contains "closed" or "class full", the label is an "n SEATS OPEN" label.
C4_OpenRowUnlessClosed ==
    (pc = "return" /\ ~arg.driver.raises) =>
        LET rows == PooledRowSet(arg.driver.text, COURSES[arg.course][2])
        IN  ((\E r \in rows : HasOpenCount(r)) /\ ~(\E r \in rows : SaysClosed(r))) =>
                \E r \in rows : IsSeatsOpenLabel(ret.value[1], COURSES[arg.course][1], <<r>>)

\* two listings of course 60, the first with waitlist seats only, the second open
C4_Witness ==
    /\ pc = "return" /\ ~arg.driver.raises /\ arg.course = 2
    /\ arg.driver.text = "My class planner\nClass 3:\n60 - Scandinavian\nLec 1\nWaitlist: 5\nClass 4:\n60 - Scandinavian II\nLec 2\nOpen: 3 of 40 left"
    /\ ret.value[1] = "[SCAND60 - 3 SEATS OPEN]"

\* C5: the call always returns a (label, evidence) pair, never raises; when reading
\* the page raises, the pair is the ERROR label with the error's description.
C5_NeverRaises ==
    pc = "return" =>
        /\ ret.kind = "return"
        /\ Len(ret.value) = 2
        /\ arg.driver.raises =>
               ret.value = <<fmt(COURSES[arg.course][1], "ERROR"), arg.driver.text>>

C5_Witness ==
    /\ pc = "return" /\ arg.driver.raises /\ arg.course = 3
    /\ ret = Return(<<"[M61 - ERROR]", "Message: stale element reference">>)

(***************************************************************************)
(* Spec: the poll loop of main, and a SlackBotClient called on its own      *)
(***************************************************************************)

\* the most refreshes of a run
MaxCycles == 2

\* the most times the page changes by itself during a run
MaxChanges == 1

\* the most calls of post on a client used on its own
MaxPosts == 2

MonitorPages ==
    { "Class 1:\nA - Intro\nLec 1 Open: 84 of 300 left\nClass 2:\n60 - Scand\nLec 1\nWaitlist: 5",
      "Class 1:\nA - Intro\nLec 1\nClosed\nClass 2:\n61 - Math\nLab 1\nOpen: 3 of 40 left" }

\* os.environ as main and from_env read it
Environments ==
    [SLACK_BOT_TOKEN : {"xoxb-1"}, SLACK_USER_ID : {NoStr, "U012AB3CD"},
     SLACK_CHANNEL : {NoStr, "#classes"}]

\* main up to the loop: without SLACK_CHANNEL it returns at once
InitMain ==
    /\ \E env \in Environments :
          IF env.SLACK_CHANNEL = NoStr
          THEN pc = "done" /\ slack = <<>>
          ELSE pc = "sleep" /\ slack = from_env(env)
    /\ dom \in MonitorPages
    /\ cycle = 0 /\ ci = 0 /\ waited = "" /\ log = <<>> /\ history = {}
    /\ changes = 0 /\ fault = ""
    /\ arg = <<>> /\ ret = <<>>

PostCalls ==
    [text : {"Hello world!"}, ping_user_id : {NoStr, "U999"}, open_reply : Replies,
     post_reply : Replies]

\* a client built by its constructor and about to be called
InitClient ==
    /\ pc = "client"
    /\ slack \in {SlackBotClient("xoxb-1", u, c) : u \in {NoStr, "U012AB3CD"}, c \in {NoStr, "#general"}}
    /\ dom = "" /\ cycle = 0 /\ ci = 0 /\ waited = "" /\ log = <<>> /\ history = {}
    /\ changes = 0 /\ fault = ""
    /\ arg = <<>> /\ ret = <<>>

Init == InitMain \/ InitClient

\* the messages this cycle handed to post
Posted(entries) ==
    UNION {{entries[k].posts[j].text : j \in 1..Len(entries[k].posts)} : k \in 1..Len(entries)}

\* time.sleep(interval); driver.refresh(): a new page is loaded
Refresh ==
    /\ pc = "sleep" /\ cycle < MaxCycles
    /\ dom' \in MonitorPages
    /\ cycle' = cycle + 1
    /\ pc' = "wait" /\ ci' = 0 /\ waited' = ""
    /\ history' = history \cup Posted(log)
    /\ log' = <<>>
    /\ UNCHANGED <<arg, ret, slack, changes, fault>>

\* driver.refresh() raises: nothing in main catches it, finally quits the driver
RefreshRaises ==
    /\ pc = "sleep" /\ cycle < MaxCycles
    /\ pc' = "crashed" /\ fault' = "WebDriverException"
    /\ UNCHANGED <<arg, ret, dom, cycle, ci, waited, log, history, slack, changes>>

\* WebDriverWait(driver, 10).until(...) succeeds or raises
Wait ==
    /\ pc = "wait"
    /\ \E ok \in BOOLEAN :
          /\ waited' = IF ok THEN "ok" ELSE "failed"
          /\ pc' = wait_target(ok)
          /\ ci' = IF wait_target(ok) = "course" THEN 1 ELSE 0
    /\ UNCHANGED <<arg, ret, dom, cycle, log, history, slack, changes, fault>>

\* the next iteration of  for label, class_code in COURSES, or the next cycle
Advance ==
    IF ci < Len(COURSES) THEN pc' = "course" /\ ci' = ci + 1
    ELSE pc' = "sleep" /\ ci' = 0

\* status, _ = get_course_availability(driver, label, class_code) and the test that
\* follows; the driver reads the page shown now, or raises
GetCourse ==
    /\ pc = "course"
    /\ \E driver \in {[raises |-> FALSE, text |-> dom],
                      [raises |-> TRUE, text |-> "Message: stale element reference"]} :
          \E r \in {get_course_availability(driver, COURSES[ci][1], COURSES[ci][2])} :
              IF r.kind = "raise"
              THEN /\ pc' = "crashed" /\ fault' = r.value
                   /\ UNCHANGED <<ci, log>>
              ELSE /\ log' = Append(log, [course |-> ci, read |-> driver,
                                          status |-> r.value[1], posts |-> <<>>])
                   /\ IF should_post(r.value[1])
                      THEN pc' = "post" /\ ci' = ci
                      ELSE Advance
                   /\ fault' = fault
    /\ UNCHANGED <<arg, ret, dom, cycle, waited, history, slack, changes>>

\* msg = f"*{status}*"; slack.post(msg), its return value dropped
Post ==
    /\ pc = "post"
    /\ \E open_reply \in Replies, post_reply \in Replies :
          \E r \in {post(slack, "*" \o log[Len(log)].status \o "*", NoStr, open_reply, post_reply)} :
              /\ slack' = r.self
              /\ log' = [log EXCEPT ![Len(log)].posts =
                            Append(@, [text |-> "*" \o log[Len(log)].status \o "*",
                                       reply |-> post_reply,
                                       outcome |-> r.outcome, sent |-> r.sent])]
              /\ IF r.outcome.kind = "raise"
                 THEN pc' = "crashed" /\ fault' = r.outcome.value /\ ci' = ci
                 ELSE Advance /\ fault' = fault
    /\ UNCHANGED <<arg, ret, dom, cycle, waited, history, changes>>

\* the page the browser shows changes by itself while the courses are processed
PageChanges ==
    /\ pc = "course" /\ changes < MaxChanges
    /\ dom' \in MonitorPages \ {dom}
    /\ changes' = changes + 1
    /\ UNCHANGED <<pc, arg, ret, cycle, ci, waited, log, history, slack, fault>>

\* except KeyboardInterrupt: the loop ends, finally quits the driver
Interrupt ==
    /\ pc \in {"sleep", "wait", "course", "post"}
    /\ pc' = "stopped"
    /\ UNCHANGED <<arg, ret, dom, cycle, ci, waited, log, history, slack, changes, fault>>

\* client.post(text, ping_user_id) on a client used on its own
ClientPost ==
    /\ pc \in {"client", "returned"} /\ cycle < MaxPosts
    /\ \E call \in PostCalls :
          \E r \in {post(slack, call.text, call.ping_user_id, call.open_reply, call.post_reply)} :
              /\ arg' = [self |-> slack, call |-> call]
              /\ ret' = r
              /\ slack' = r.self
    /\ pc' = "returned"
    /\ cycle' = cycle + 1
    /\ UNCHANGED <<dom, ci, waited, log, history, changes, fault>>

Next ==
    \/ Refresh
    \/ RefreshRaises
    \/ Wait
    \/ GetCourse
    \/ Post
    \/ PageChanges
    \/ Interrupt
    \/ ClientPost

Spec == Init /\ [][Next]_vars

endswith(s, suffix) ==
    Len(suffix) <= Len(s) /\ SubSeq(s, Len(s) - Len(suffix) + 1, Len(s)) = suffix

AllDigits(s) == Len(s) > 0 /\ \A i \in 1..Len(s) : IsDigit(Char(s, i))

\* s is "[<label> - n SEATS OPEN]" or "[<label> - n WAITLIST SEATS]" for a number n
IsAvailableLabel(s, label) ==
    \E suffix \in {" SEATS OPEN]", " WAITLIST SEATS]"} :
        /\ startswith(s, "[" \o label \o " - ")
        /\ endswith(s, suffix)
        /\ Len(s) > Len(label) + 4 + Len(suffix)
        /\ AllDigits(SubSeq(s, Len(label) + 5, Len(s) - Len(suffix)))

\* C2: a result is handed to slack.post only when its label is an OPEN or a WAITLIST
\* label; a CLOSED, NOT FOUND or ERROR result never triggers a post.
C2_PostOnlyWhenAvailable ==
    \A k \in 1..Len(log) :
        log[k].posts # <<>> => IsAvailableLabel(log[k].status, COURSES[log[k].course][1])

\* C8: within one cycle the engine is invoked once per course, in sequence, and no two
\* courses of the cycle are classified against different page texts.
C8_SameSnapshotInCycle ==
    /\ \A k \in 1..Len(log) : log[k].course = k
    /\ \A j, k \in 1..Len(log) :
          (~log[j].read.raises /\ ~log[k].read.raises) => log[j].read.text = log[k].read.text

\* post cannot resolve a channel: no channel is set, and either no user id is set or no
\* DM channel is cached and conversations.open does not answer ok
NoChannel(self, open_reply) ==
    /\ self.channel = NoStr
    /\ \/ self.dm_user_id = NoStr
       \/ self.dm_channel_id = NoStr /\ open_reply # "ok"

\* C9: when post fails (the API answers not ok, no channel is resolved, the request
\* raises) it returns False and does not raise; in the loop a post, failed or not, is
\* followed by the next course of the cycle or by the next sleep, and only a raising
\* refresh ends main with an exception.
C9_FailedPostNonFatal ==
    /\ pc = "returned" =>
          /\ ret.outcome.kind = "return"
          /\ ret.outcome.value \in BOOLEAN
          /\ (NoChannel(arg.self, arg.call.open_reply) \/ arg.call.post_reply # "ok")
                 => ret.outcome.value = FALSE
    /\ \A k \in 1..Len(log) : \A j \in 1..Len(log[k].posts) :
          /\ log[k].posts[j].outcome.kind = "return"
          /\ log[k].posts[j].outcome.value \in BOOLEAN
          /\ log[k].posts[j].reply # "ok" => log[k].posts[j].outcome.value = FALSE
    /\ pc = "crashed" => fault = "WebDriverException"
    /\ (log # <<>> /\ log[Len(log)].posts # <<>>) =>
          \/ pc = "course" /\ ci = log[Len(log)].course + 1
          \/ pc = "sleep" /\ log[Len(log)].course = Len(COURSES)
          \/ pc = "stopped"
          \/ pc = "crashed" /\ fault = "WebDriverException"

\* the post for the first course failed on a raising request, and the loop is at the
\* second course
C9_Witness ==
    /\ pc = "course" /\ ci = 2 /\ Len(log) = 1
    /\ log[1].posts # <<>>
    /\ log[1].posts[1].reply = "raises"
    /\ log[1].posts[1].outcome = Return(FALSE)

\* C10: in a cycle whose wait succeeded, the courses are processed in the order of
\* COURSES and each course whose label is available gets exactly one post, whatever
\* was posted in earlier cycles; in a cycle whose wait failed, no course is evaluated
\* and nothing is posted before the next sleep and refresh.
C10_LevelTriggered ==
    /\ \A k \in 1..Len(log) :
          /\ log[k].course = k
          /\ Len(log[k].posts) <= 1
          /\ ((k < Len(log) \/ pc \in {"course", "sleep"})
                 /\ IsAvailableLabel(log[k].status, COURSES[k][1]))
               => /\ Len(log[k].posts) = 1
                  /\ log[k].posts[1].text = "*" \o log[k].status \o "*"
    /\ log # <<>> => waited = "ok"
    /\ waited = "failed" => pc \in {"sleep", "stopped", "crashed"}

\* in the second cycle a label is posted that an earlier cycle posted already
C10_Witness ==
    /\ cycle = 2 /\ Len(log) >= 1
    /\ IsAvailableLabel(log[1].status, COURSES[1][1])
    /\ log[1].posts # <<>>
    /\ log[1].posts[1].text \in history

====
